---------------------------- MODULE Spec2Model ----------------------------
(***************************************************************************)
(* TicketBot (src/ticketbot.py): an inbox-driven ticket marketplace bot.   *)
(* One work cycle refreshes the ceremony calendar, drains the unread inbox *)
(* through the command parser, stages new records and deletes in two       *)
(* queues, flushes the queues to the MongoDB "users" collection and posts  *)
(* the megathread.                                                         *)
(*                                                                         *)
(* A message body is a sequence of space-separated tokens.  A date text    *)
(* and a username are one token each; dateutil's parse, str.lower, int()   *)
(* and the regular expressions are modelled by what they do on the tokens  *)
(* the model uses.                                                         *)
(***************************************************************************)
EXTENDS Integers, Sequences, FiniteSets, TLC

VARIABLES
    page,           \* the lines _get_ceremony_data scrapes from CEREMONY_URL
    ceremony_dict,  \* self.ceremony_dict: [keys: Seq(date text), slots: key -> set of lines]
    inbox,          \* the unread messages, in the order get_unread yields them
    sent,           \* number of messages users have sent so far
    add_queue,      \* self.add_queue
    delete_queue,   \* self.delete_queue
    db,             \* self._db.users: [users: Seq(document), nextId, calls: store calls of this cycle]
    pc,             \* position of work(): "init" (no cycle yet), "inbox", "megathread",
                    \* "done" (cycle completed), "failed" (cycle ended in work()'s handler)
    pos,            \* index in inbox of the next message of the for loop
    outbox,         \* replies and private messages sent during this cycle
    readLog,        \* messages marked read during this cycle
    now,            \* datetime.utcnow(), in hours
    notify_interval,  \* TicketBot.NOTIFY_INTERVAL, in hours
    ticketbot_table,  \* the DynamoDB table 'ticketbot': items written by update_item
    match_log,      \* the runs of match_ticket_users so far, with the messages each sent
    md_input,       \* the arguments of a MarkdownMaker call
    md_output       \* the strings the call returned, one per application

matchVars == <<now, notify_interval, ticketbot_table, match_log>>

mdVars == <<md_input, md_output>>

vars == <<page, ceremony_dict, inbox, sent, add_queue, delete_queue, db, pc, pos,
          outbox, readLog, matchVars, mdVars>>

\* match_ticket_users has not run
NoMatching ==
    /\ now = 0
    /\ notify_interval = 0
    /\ ticketbot_table = {}
    /\ match_log = <<>>

\* no MarkdownMaker call is under way
NoMarkdown ==
    /\ md_input = <<>>
    /\ md_output = <<>>

-----------------------------------------------------------------------------
(* Bounds of the model *)

MaxMsgs == 3
MaxDebt == 4

-----------------------------------------------------------------------------
(* Texts *)

TRIGGER_TOKEN == "!FAUbot"

K1 == "December 16, 2016 9:00 AM"
K1alt == "Dec 16 2016 9AM"
K2 == "December 17, 2016 1:00 PM"
D1midnight == "December 16, 2016"
K1pm == "December 16, 2016 1:00 PM"
K1short == "December 16, 2016 9:00"

Authors == {"Alice", "bob"}

\* str.lower on the names the model uses
Lower(s) ==
    CASE s = "Alice" -> "alice"
      [] s = "Bob" -> "bob"
      [] OTHER -> s

\* int() on the digit strings the model uses; -1 for a token that is not digits
IntOf(tok) ==
    CASE tok = "0" -> 0
      [] tok = "00" -> 0
      [] tok = "2" -> 2
      [] tok = "3" -> 3
      [] tok = "4" -> 4
      [] tok = "5" -> 5
      [] tok = "10" -> 10
      [] tok = "100" -> 100
      [] OTHER -> -1

\* \d{1,2}
Digits12(tok) == tok \in {"0", "00", "2", "3", "4", "5", "10"}

\* (?:\/u\/)?([\w_-]{3,}) on one token: the captured username, "" when no match
UserGroup(tok) ==
    CASE tok = "/u/Bob" -> "Bob"
      [] tok = "/u/bob" -> "bob"
      [] tok = "/u/alice" -> "alice"
      [] tok = "/u/carol" -> "carol"
      [] tok \in {"alice", "Alice", "bob", "Bob", "carol", "jpfau"} -> tok
      [] tok = "/u/jpfau" -> "jpfau"
      [] OTHER -> ""

NoDate == [ok |-> FALSE, day |-> 0, hour |-> 0]

\* dateutil.parser.parse on one text: ok = FALSE stands for ValueError.
\* Two datetimes are equal when day and hour are (the texts carry no minutes).
ParseText(text) ==
    CASE text = K1 -> [ok |-> TRUE, day |-> 16, hour |-> 9]
      [] text = K1alt -> [ok |-> TRUE, day |-> 16, hour |-> 9]
      [] text = K1pm -> [ok |-> TRUE, day |-> 16, hour |-> 13]
      [] text = K1short -> [ok |-> TRUE, day |-> 16, hour |-> 9]
      [] text = K2 -> [ok |-> TRUE, day |-> 17, hour |-> 13]
      [] text = D1midnight -> [ok |-> TRUE, day |-> 16, hour |-> 0]
      [] text = "Dec 16 2016" -> [ok |-> TRUE, day |-> 16, hour |-> 0]
      [] text = "January 1, 2017 9:00 AM" -> [ok |-> TRUE, day |-> 32, hour |-> 9]
      [] OTHER -> NoDate

\* parse applied to the text a regex group holds: a sequence of tokens joined
\* by spaces.  Several tokens never form a date text of the model.
parse(toks) == IF Len(toks) = 1 THEN ParseText(toks[1]) ELSE NoDate

\* key.startswith(d) on the texts the model uses
StartsWith(key, d) ==
    \/ key = d
    \/ key \in {K1, K1pm, K1short} /\ d = D1midnight
    \/ key = K1 /\ d = K1short

-----------------------------------------------------------------------------
(* Ceremony calendar *)

CeremonyData ==
    <<"Commencement", K1, "College of Science", K2, "College of Business">>

RECURSIVE CeremonyLoop(_, _, _, _)
\* the for loop of _get_ceremony_dict from line i on; current = "" stands for None
CeremonyLoop(data, i, result, current) ==
    IF i > Len(data) THEN result
    ELSE
        LET d == data[i]
            dt == ParseText(d)
            haskey(k) == \E j \in 1..Len(result.keys) : result.keys[j] = k
        IN  IF ~dt.ok
            THEN IF current # ""
                 THEN \* result[current].add(d): KeyError when current is no key
                      IF haskey(current)
                      THEN CeremonyLoop(data, i + 1,
                               [result EXCEPT !.slots = [k \in DOMAIN result.slots |->
                                   IF k = current THEN result.slots[k] \cup {d}
                                   ELSE result.slots[k]]],
                               current)
                      ELSE [result EXCEPT !.raised = TRUE]
                 ELSE CeremonyLoop(data, i + 1, result, current)
            ELSE IF dt.hour = 0
                 THEN CeremonyLoop(data, i + 1, result, current)
                 ELSE IF ~haskey(d)
                         /\ ~(\E j \in 1..Len(result.keys) : StartsWith(result.keys[j], d))
                      THEN CeremonyLoop(data, i + 1,
                               [keys |-> Append(result.keys, d),
                                slots |-> [k \in DOMAIN result.slots \cup {d} |->
                                    IF k = d THEN {} ELSE result.slots[k]],
                                raised |-> FALSE],
                               d)
                      ELSE CeremonyLoop(data, i + 1, result, d)

_get_ceremony_dict(data) ==
    CeremonyLoop(data, 1, [keys |-> <<>>, slots |-> <<>>, raised |-> FALSE], "")

\* get_ceremony_dict: the page scraped by _get_ceremony_data, then built
get_ceremony_dict == _get_ceremony_dict(CeremonyData)

\* self.ceremony_dict = self.get_ceremony_dict() on the scraped lines; an
\* exception of the build leaves the attribute as it was
refresh_ceremony_dict(old, data) ==
    LET built == _get_ceremony_dict(data)
    IN  IF built.raised THEN old ELSE built

\* next(cd for cd in self.ceremony_dict if parse(cd) == dt): "" for StopIteration
FirstKey(cdict, dt) ==
    LET hits == {j \in 1..Len(cdict.keys) : ParseText(cdict.keys[j]) = dt}
    IN  IF hits = {} THEN ""
        ELSE cdict.keys[CHOOSE j \in hits : \A k \in hits : j <= k]

-----------------------------------------------------------------------------
(* Command parser *)

\* the outcomes of dateutil's parse(None), by library version
ParseNoneOutcomes == {"AttributeError", "TypeError"}

\* COMMAND_PATTERN  ^!FAUbot (buy|sell) (\d{1,2})(?: (.+))?$
COMMAND_PATTERN(body) ==
    /\ Len(body) >= 3
    /\ body[1] = TRIGGER_TOKEN
    /\ body[2] \in {"buy", "sell"}
    /\ Digits12(body[3])

\* RESOLVE_PATTERN  ^!FAUbot resolve (\d{1,2}) (?:\/u\/)?([\w_-]{3,})(?: (.+))?$
RESOLVE_PATTERN(body) ==
    /\ Len(body) >= 4
    /\ body[1] = TRIGGER_TOKEN
    /\ body[2] = "resolve"
    /\ Digits12(body[3])
    /\ UserGroup(body[4]) # ""

\* "!FAUbot" in message.body
HasTrigger(body) == \E i \in 1..Len(body) : body[i] = TRIGGER_TOKEN

\* self.DELETE_COMMAND in message.body, DELETE_COMMAND = "!FAUbot delete me"
HasDeleteCommand(body) ==
    \E i \in 1..Len(body) :
        /\ i + 2 <= Len(body)
        /\ body[i] = TRIGGER_TOKEN
        /\ body[i + 1] = "delete"
        /\ body[i + 2] = "me"

\* one shape for every outcome of parse_command
Outcome(kind, user, operation, amount, date, given, with, body, choices) ==
    [kind |-> kind, user |-> user, operation |-> operation, amount |-> amount,
     date |-> date, given |-> given, resolve_with |-> with, body |-> body,
     choices |-> choices]

\* mutation of _parse_new_command: next(..., None) instead of the except
\* StopIteration clause, a date that matches no key passes with date None
_parse_new_command_NextDefault(body, author, cdict, none_exc) ==
    LET user == Lower(author)
        operation == body[2]
        amount == body[3]
        given == SubSeq(body, 4, Len(body))
        dt == parse(given)
        date == FirstKey(cdict, dt)
    IN  IF given = <<>>
        THEN IF none_exc = "AttributeError"
             THEN Outcome("MissingCeremonyDate", user, operation, amount, "", <<>>, "",
                          body, cdict.keys)
             ELSE Outcome("Unclassified", user, operation, amount, "", <<>>, "",
                          body, <<>>)
        ELSE IF ~dt.ok
             THEN Outcome("InvalidCeremonyDate", user, operation, amount, "", given, "",
                          body, cdict.keys)
             ELSE Outcome("UserTuple", user, operation, amount, date, given, "",
                          body, <<>>)

_parse_new_command(body, author, cdict, none_exc) ==
    LET user == Lower(author)
        operation == body[2]
        amount == body[3]
        given == SubSeq(body, 4, Len(body))
        dt == parse(given)
        date == FirstKey(cdict, dt)
    IN  IF given = <<>>
        THEN IF none_exc = "AttributeError"
             THEN Outcome("MissingCeremonyDate", user, operation, amount, "", <<>>, "",
                          body, cdict.keys)
             ELSE Outcome("Unclassified", user, operation, amount, "", <<>>, "",
                          body, <<>>)
        ELSE IF ~dt.ok \/ date = ""
             THEN Outcome("InvalidCeremonyDate", user, operation, amount, "", given, "",
                          body, cdict.keys)
             ELSE Outcome("UserTuple", user, operation, amount, date, given, "",
                          body, <<>>)

_parse_resolve_command(body, author, cdict) ==
    LET resolved_amount == body[3]
        resolved_with == UserGroup(body[4])
        given == SubSeq(body, 5, Len(body))
        dt == parse(given)
        date == FirstKey(cdict, dt)
    IN  \* parse(None), an unparseable text (a plain ValueError) and
        \* "raise InvalidCeremonyDate" without its five arguments (TypeError)
        \* are all caught by no except clause of the inbox loop
        IF given = <<>> \/ ~dt.ok \/ date = ""
        THEN Outcome("Unclassified", author, "", resolved_amount, "", given,
                     resolved_with, body, <<>>)
        ELSE Outcome("ResolveTuple", author, "", resolved_amount, date, given,
                     resolved_with, body, <<>>)

\* mutation of parse_command: a body that matches neither pattern is
\* treated like a body without the trigger
parse_command_NoFallback(body, author, cdict, none_exc) ==
    IF ~HasTrigger(body)
    THEN Outcome("NoCommand", author, "", "", "", <<>>, "", body, <<>>)
    ELSE IF COMMAND_PATTERN(body)
         THEN _parse_new_command(body, author, cdict, none_exc)
         ELSE IF RESOLVE_PATTERN(body)
              THEN _parse_resolve_command(body, author, cdict)
              ELSE Outcome("NoCommand", author, "", "", "", <<>>, "", body, <<>>)

parse_command(body, author, cdict, none_exc) ==
    IF ~HasTrigger(body)
    THEN Outcome("NoCommand", author, "", "", "", <<>>, "", body, <<>>)
    ELSE IF COMMAND_PATTERN(body)
         THEN _parse_new_command(body, author, cdict, none_exc)
         ELSE IF RESOLVE_PATTERN(body)
              THEN _parse_resolve_command(body, author, cdict)
              ELSE Outcome("InvalidCommand", author, "", "", "", <<>>, "", body, <<>>)

-----------------------------------------------------------------------------
(* The store: the MongoDB collection self._db.users *)

StrAmount(tok) == [kind |-> "str", tok |-> tok, val |-> IntOf(tok)]
IntAmount(n) == [kind |-> "int", tok |-> "", val |-> n]

Call(op, arg) == [op |-> op, arg |-> arg]

\* _get_user_key
_get_user_key(user_name, ceremony_date, cdict) ==
    [user_name |-> Lower(user_name),
     ceremony_date |-> FirstKey(cdict, ParseText(ceremony_date))]

\* _get_user_item
_get_user_item(command_tuple, cdict) ==
    LET key == _get_user_key(command_tuple.user, command_tuple.date, cdict)
    IN  [user_name |-> key.user_name,
         ceremony_date |-> key.ceremony_date,
         operation |-> command_tuple.operation,
         amount |-> StrAmount(command_tuple.amount),
         resolved |-> FALSE]

WithId(item, id) ==
    [f \in DOMAIN item \cup {"_id"} |-> IF f = "_id" THEN id ELSE item[f]]

\* pymongo's insert_many: TypeError for an empty list, else every document is
\* appended under a fresh _id
insert_many(d, documents) ==
    IF documents = <<>>
    THEN [db |-> [d EXCEPT !.calls = Append(@, Call("insert_many", 0))],
          raised |-> TRUE]
    ELSE [db |-> [users |-> d.users \o
                      [i \in 1..Len(documents) |-> WithId(documents[i], d.nextId + i - 1)],
                  nextId |-> d.nextId + Len(documents),
                  calls |-> Append(d.calls, Call("insert_many", Len(documents)))],
          raised |-> FALSE]

\* pymongo's remove(spec_or_id) with an _id
remove(d, id) ==
    [d EXCEPT !.users = SelectSeq(@, LAMBDA u : u._id # id),
              !.calls = Append(@, Call("remove", id))]

\* find_one({'user_name': ..., 'ceremony_date': ...}): index of the first
\* matching document, 0 for None
find_one(users, user_name, ceremony_date) ==
    LET hits == {i \in 1..Len(users) :
                    /\ users[i].user_name = user_name
                    /\ users[i].ceremony_date = ceremony_date}
    IN  IF hits = {} THEN 0 ELSE CHOOSE i \in hits : \A j \in hits : i <= j

\* update({'_id': id}, {'$set': {'amount': amount}})
update_amount_by_id(d, id, amount) ==
    [d EXCEPT !.users = [i \in 1..Len(@) |->
                            IF @[i]._id = id THEN [@[i] EXCEPT !.amount = amount]
                            ELSE @[i]],
              !.calls = Append(@, Call("update", id))]

_update_amount(d, user_name, ceremony_date, delta) ==
    LET i == find_one(d.users, user_name, ceremony_date)
        d1 == [d EXCEPT !.calls = Append(@, Call("find_one", i))]
    IN  IF i = 0
        THEN [db |-> d1, raised |-> TRUE]    \* None['amount']: TypeError
        ELSE [db |-> update_amount_by_id(d1, d.users[i]._id,
                         IntAmount(d.users[i].amount.val + delta)),
              raised |-> FALSE]

\* mutation of decrement_amount: the sign of the delta is lost
decrement_amount_SignLost(d, user_name, ceremony_date, decrement) ==
    _update_amount(d, user_name, ceremony_date, decrement)

decrement_amount(d, user_name, ceremony_date, decrement) ==
    _update_amount(d, user_name, ceremony_date, 0 - decrement)

_resolve_user(d, resolve_tuple) ==
    LET user_name == Lower(resolve_tuple.user)
        resolved_with == Lower(resolve_tuple.resolve_with)
        resolved_amount == IntOf(resolve_tuple.amount)
        r1 == decrement_amount(d, user_name, resolve_tuple.date, resolved_amount)
    IN  IF r1.raised THEN r1
        ELSE decrement_amount(r1.db, resolved_with, resolve_tuple.date, resolved_amount)

-----------------------------------------------------------------------------
(* Batch queues *)

\* mutation of _queue_data_present: the guard of the flush is always true
_queue_data_present_Always(aq, dq) == TRUE

_queue_data_present(aq, dq) == aq # <<>> \/ dq # <<>>

\* _new_user_add_queue
_new_user_add_queue(aq, command_tuple, cdict) ==
    Append(aq, _get_user_item(command_tuple, cdict))

\* _new_user_delete_queue
_new_user_delete_queue(dq, user_name) ==
    Append(dq, [user_name |-> user_name])

\* q = [add_queue, delete_queue, db, raised]
_batch_write_new_users(q) ==
    IF _queue_data_present(q.add_queue, q.delete_queue)
    THEN LET r == insert_many(q.db, q.add_queue)
         IN  [q EXCEPT !.add_queue = <<>>, !.db = r.db, !.raised = r.raised]
    ELSE q

RECURSIVE _batch_delete_users(_)
_batch_delete_users(q) ==
    IF q.delete_queue = <<>> THEN q
    ELSE LET item == Head(q.delete_queue)
             q1 == [q EXCEPT !.delete_queue = Tail(@)]
         IN  IF "_id" \notin DOMAIN item
             THEN [q1 EXCEPT !.raised = TRUE]    \* self.delete_queue.get()['_id']: KeyError
             ELSE _batch_delete_users([q1 EXCEPT !.db = remove(@, item._id)])

_batch_write_new_db_records_new(q) ==
    LET q1 == _batch_write_new_users(q)
    IN  IF q1.raised THEN q1 ELSE _batch_delete_users(q1)

-----------------------------------------------------------------------------
(* One pass of the for loop of parse_commands_from_inbox *)

Reply(to, kind) == [to |-> to, kind |-> kind]

\* mutation of MarkAsRead: the except NoCommandInMessage branch keeps the flag
MarkAsRead_Always(kind) == TRUE

\* mutation of MarkAsRead: every except branch keeps the message unread
MarkAsRead_SuccessOnly(kind) == kind \in {"UserTuple", "ResolveTuple"}

\* mark_as_read after the try statement, by the outcome of parse_command
MarkAsRead(kind) == kind # "NoCommand"

\* m = [add_queue, delete_queue, db, outbox, raised, mark]
LoopBody(m, msg, cdict, none_exc) ==
    IF HasDeleteCommand(msg.body)
    THEN [m EXCEPT !.delete_queue = _new_user_delete_queue(@, Lower(msg.author)),
                   !.outbox = Append(@, Reply(msg.author, "delete_user_reply")),
                   !.mark = TRUE]
    ELSE
        LET command == parse_command(msg.body, msg.author, cdict, none_exc)
        IN  CASE command.kind = "NoCommand" ->
                    [m EXCEPT !.mark = MarkAsRead(command.kind)]
              [] command.kind = "InvalidCommand" ->
                    [m EXCEPT !.outbox = Append(@, Reply(msg.author, "invalid_command_reply")),
                              !.mark = MarkAsRead(command.kind)]
              [] command.kind = "InvalidCeremonyDate" ->
                    [m EXCEPT !.outbox = Append(@, Reply(msg.author, "invalid_ceremony_reply")),
                              !.mark = MarkAsRead(command.kind)]
              [] command.kind = "MissingCeremonyDate" ->
                    [m EXCEPT !.outbox = Append(@, Reply(msg.author, "missing_ceremony_reply")),
                              !.mark = MarkAsRead(command.kind)]
              [] command.kind = "UserTuple" ->
                    [m EXCEPT !.add_queue = _new_user_add_queue(@, command, cdict),
                              !.outbox = Append(@, Reply(msg.author, "new_user_reply")),
                              !.mark = MarkAsRead(command.kind)]
              [] command.kind = "ResolveTuple" ->
                    LET r == _resolve_user(m.db, command)
                    IN  IF r.raised
                        THEN [m EXCEPT !.db = r.db, !.raised = TRUE, !.mark = FALSE]
                        ELSE [m EXCEPT !.db = r.db,
                                       !.outbox = @ \o
                                           <<Reply(command.user, "resolve_confirmation"),
                                             Reply(command.resolve_with, "resolve_confirmation")>>,
                                       !.mark = MarkAsRead(command.kind)]
              [] OTHER ->   \* an exception no except clause catches
                    [m EXCEPT !.raised = TRUE, !.mark = FALSE]

-----------------------------------------------------------------------------
(* Messages users send *)

B_hello == <<"hello", "there">>
B_delete == <<TRIGGER_TOKEN, "delete", "me">>
B_buy_then_delete == <<TRIGGER_TOKEN, "buy", "2", K1, TRIGGER_TOKEN, "delete", "me">>
B_buy == <<TRIGGER_TOKEN, "buy", "2", K1alt>>
B_sell == <<TRIGGER_TOKEN, "sell", "5", K1>>
B_buy_k2 == <<TRIGGER_TOKEN, "buy", "4", K2>>
B_resolve_bob == <<TRIGGER_TOKEN, "resolve", "3", "/u/Bob", K1>>
B_resolve_alice == <<TRIGGER_TOKEN, "resolve", "3", "alice", K1alt>>

Bodies == {B_hello, B_delete, B_buy_then_delete, B_buy, B_sell, B_buy_k2,
           B_resolve_bob, B_resolve_alice}

-----------------------------------------------------------------------------
(* The state machine *)

EmptyDb == [users |-> <<>>, nextId |-> 1, calls |-> <<>>]

Init ==
    /\ page = CeremonyData
    /\ ceremony_dict = get_ceremony_dict
    /\ inbox = <<>>
    /\ sent = 0
    /\ add_queue = <<>>
    /\ delete_queue = <<>>
    /\ db = EmptyDb
    /\ pc = "init"
    /\ pos = 0
    /\ outbox = <<>>
    /\ readLog = <<>>
    /\ NoMatching
    /\ NoMarkdown

\* mutation of Idle: an exception that leaves work() ends the bot, no cycle
\* follows a failed one
Idle_NotAfterFailure == pc \in {"init", "done"}

\* work() is not running: before the first cycle, after a completed one, or
\* after one that ended in the except clause of work()
Idle == pc \in {"init", "done", "failed"}

\* a user sends a message to the bot between two work cycles
SendMessage(choices) ==
    /\ Idle
    /\ sent < MaxMsgs
    /\ \E a \in Authors, b \in choices :
           inbox' = Append(inbox, [author |-> a, body |-> b])
    /\ sent' = sent + 1
    /\ UNCHANGED <<page, ceremony_dict, add_queue, delete_queue, db, pc, pos,
                   outbox, readLog>>
    /\ UNCHANGED <<matchVars, mdVars>>

\* work(): refresh_ceremony_dict, then get_unread.  No further cycle is
\* explored once an amount has sunk below -MaxDebt.
StartWork ==
    /\ Idle
    /\ \A i \in 1..Len(db.users) : db.users[i].amount.val >= 0 - MaxDebt
    /\ ceremony_dict' = refresh_ceremony_dict(ceremony_dict, page)
    /\ pc' = IF _get_ceremony_dict(page).raised THEN "failed" ELSE "inbox"
    /\ pos' = IF _get_ceremony_dict(page).raised THEN 0 ELSE 1
    /\ outbox' = <<>>
    /\ readLog' = <<>>
    /\ db' = [db EXCEPT !.calls = <<>>]
    /\ UNCHANGED <<page, inbox, sent, add_queue, delete_queue>>
    /\ UNCHANGED <<matchVars, mdVars>>

\* one message of the for loop; an exception ends the cycle in work()'s handler
ProcessMessage ==
    /\ pc = "inbox"
    /\ pos <= Len(inbox)
    /\ \E none_exc \in ParseNoneOutcomes :
        LET msg == inbox[pos]
            r == LoopBody([add_queue |-> add_queue, delete_queue |-> delete_queue,
                           db |-> db, outbox |-> outbox, raised |-> FALSE,
                           mark |-> FALSE],
                          msg, ceremony_dict, none_exc)
        IN  /\ add_queue' = r.add_queue
            /\ delete_queue' = r.delete_queue
            /\ db' = r.db
            /\ outbox' = r.outbox
            /\ pc' = IF r.raised THEN "failed" ELSE "inbox"
            /\ pos' = IF r.raised THEN 0 ELSE IF r.mark THEN pos ELSE pos + 1
            /\ inbox' = IF r.mark
                        THEN SubSeq(inbox, 1, pos - 1) \o SubSeq(inbox, pos + 1, Len(inbox))
                        ELSE inbox
            /\ readLog' = IF r.mark THEN Append(readLog, msg) ELSE readLog
    /\ UNCHANGED <<page, ceremony_dict, sent>>
    /\ UNCHANGED <<matchVars, mdVars>>

\* the flush that ends parse_commands_from_inbox
Flush ==
    /\ pc = "inbox"
    /\ pos > Len(inbox)
    /\ LET r == _batch_write_new_db_records_new(
                    [add_queue |-> add_queue, delete_queue |-> delete_queue,
                     db |-> db, raised |-> FALSE])
       IN  /\ add_queue' = r.add_queue
           /\ delete_queue' = r.delete_queue
           /\ db' = r.db
           /\ pc' = IF r.raised THEN "failed" ELSE "megathread"
    /\ pos' = 0
    /\ UNCHANGED <<page, ceremony_dict, inbox, sent, outbox, readLog>>
    /\ UNCHANGED <<matchVars, mdVars>>

\* create_or_update_megathreads: reads the store and posts; the cycle ends
CreateOrUpdateMegathreads ==
    /\ pc = "megathread"
    /\ pc' = "done"
    /\ UNCHANGED <<page, ceremony_dict, inbox, sent, add_queue, delete_queue, db,
                   pos, outbox, readLog>>
    /\ UNCHANGED <<matchVars, mdVars>>

Next ==
    \/ SendMessage(Bodies)
    \/ StartWork
    \/ ProcessMessage
    \/ Flush
    \/ CreateOrUpdateMegathreads

Spec == Init /\ [][Next]_vars

-----------------------------------------------------------------------------
(* Vocabulary of the properties *)

CycleEnded == pc \in {"done", "failed"}

\* the for loop is about to handle inbox[pos]
AtMessage == pc = "inbox" /\ pos <= Len(inbox)

\* the for loop is over and the flush is about to run
AtFlush == pc = "inbox" /\ pos > Len(inbox)

\* what the inbox loop makes of a message: "Delete" or parse_command's outcome
KindOf(msg) ==
    IF HasDeleteCommand(msg.body) THEN "Delete"
    ELSE parse_command(msg.body, msg.author, ceremony_dict, "AttributeError").kind

CommandOf(msg) == parse_command(msg.body, msg.author, ceremony_dict, "AttributeError")

\* readLog[i] is the last new-record or delete message of its author that
\* was marked read in this cycle
LastWriteOfAuthor(i) ==
    /\ KindOf(readLog[i]) \in {"Delete", "UserTuple"}
    /\ \A j \in (i + 1)..Len(readLog) :
           ~(/\ Lower(readLog[j].author) = Lower(readLog[i].author)
             /\ KindOf(readLog[j]) \in {"Delete", "UserTuple"})

RecordsOf(user_name) ==
    {i \in 1..Len(db.users) : db.users[i].user_name = user_name}

RecordsAt(user_name, ceremony_date) ==
    {i \in 1..Len(db.users) :
        /\ db.users[i].user_name = user_name
        /\ db.users[i].ceremony_date = ceremony_date}

\* the flush of this cycle reached the store
FlushReachedStore == \E k \in 1..Len(db.calls) : db.calls[k].op = "insert_many"

-----------------------------------------------------------------------------
(* C1: a message whose body does not contain the trigger "!FAUbot" is
   classified NoCommand and its processing changes nothing: neither queue,
   nor the store (no call is issued), no reply is sent, and the message stays
   unread, so the loop moves on to the next message and the next cycle
   fetches it again. *)
C1_NoTriggerChangesNothing ==
    [][(AtMessage /\ ~HasTrigger(inbox[pos].body)) =>
          /\ \A e \in ParseNoneOutcomes :
                 parse_command(inbox[pos].body, inbox[pos].author,
                               ceremony_dict, e).kind = "NoCommand"
          /\ add_queue' = add_queue
          /\ delete_queue' = delete_queue
          /\ db' = db
          /\ outbox' = outbox
          /\ inbox' = inbox
          /\ readLog' = readLog
          /\ pc' = "inbox"
          /\ pos' = pos + 1]_vars

\* the loop has passed a message without the trigger, which is still unread
C1_Witness ==
    /\ pc = "inbox"
    /\ pos > 1
    /\ ~HasTrigger(inbox[pos - 1].body)

(* C2: a message is marked read only after its effect is committed: at the
   end of a cycle, the last new-record message of a user marked read in that
   cycle has its record in the store, and the last delete message of a user
   marked read in that cycle has left no record of that user. *)
C2_ReadOnlyAfterCommit ==
    CycleEnded =>
        \A i \in 1..Len(readLog) :
            LastWriteOfAuthor(i) =>
                IF KindOf(readLog[i]) = "Delete"
                THEN RecordsOf(Lower(readLog[i].author)) = {}
                ELSE LET c == CommandOf(readLog[i])
                     IN  \E k \in RecordsAt(c.user, c.date) :
                             /\ db.users[k].operation = c.operation
                             /\ db.users[k].amount.val = IntOf(c.amount)

(* C3: in the flush, every queued delete is applied to the store before any
   queued add: when both queues hold entries, the store sees one removal per
   queued delete before it sees the insert. *)
C3_DeletesBeforeAdds ==
    [][(AtFlush /\ add_queue # <<>> /\ delete_queue # <<>>) =>
          LET new == SubSeq(db'.calls, Len(db.calls) + 1, Len(db'.calls))
          IN  /\ \E j \in 1..Len(new) : new[j].op = "insert_many"
              /\ \A j \in 1..Len(new) :
                     new[j].op = "insert_many" =>
                         Cardinality({k \in 1..(j - 1) : new[k].op = "remove"})
                             = Len(delete_queue)]_vars

(* C4: when a new-record message of a user is followed in the same cycle by a
   delete message of that user, the key of that record is absent from the
   store after the flush of that cycle. *)
C4_AddThenDeleteAbsent ==
    (CycleEnded /\ FlushReachedStore) =>
        \A i \in 1..Len(readLog) : \A j \in (i + 1)..Len(readLog) :
            (/\ KindOf(readLog[i]) = "UserTuple"
             /\ KindOf(readLog[j]) = "Delete"
             /\ Lower(readLog[j].author) = Lower(readLog[i].author)
             /\ LastWriteOfAuthor(j))
            => RecordsAt(CommandOf(readLog[i]).user, CommandOf(readLog[i]).date) = {}

(* C5: the store holds at most one record per primary key
   (user_name, ceremony_date). *)
C5_OneRecordPerKey ==
    \A i, j \in 1..Len(db.users) :
        (/\ db.users[i].user_name = db.users[j].user_name
         /\ db.users[i].ceremony_date = db.users[j].ceremony_date)
        => i = j

(* C6: every record of the store has amount >= 0. *)
C6_AmountNonNegative ==
    \A i \in 1..Len(db.users) : db.users[i].amount.val >= 0

(* C7: at the end of every work cycle, however it ended, the add queue and
   the delete queue are both empty. *)
C7_QueuesEmptyAtCycleEnd ==
    CycleEnded => (add_queue = <<>> /\ delete_queue = <<>>)

(* C8: a flush that finds both queues empty issues no call to the store and
   leaves the store and the queues as they are. *)
C8_EmptyFlushIsNoOp ==
    [][(AtFlush /\ add_queue = <<>> /\ delete_queue = <<>>) =>
          /\ db' = db
          /\ add_queue' = <<>>
          /\ delete_queue' = <<>>
          /\ pc' = "megathread"]_vars

\* a flush has completed in a cycle that issued no store call at all
C8_Witness == pc = "megathread" /\ db.calls = <<>>

(* C9: a message containing "!FAUbot delete me" is handled as a delete
   whatever else its body holds, and once the flush of that cycle has run the
   store holds no record of its author on any ceremony date (unless a later
   new-record message of the author followed in the same cycle). *)
C9_DeleteRemovesAllRecords ==
    /\ \A i \in 1..Len(readLog) :
           HasDeleteCommand(readLog[i].body) => KindOf(readLog[i]) = "Delete"
    /\ (CycleEnded /\ FlushReachedStore) =>
           \A i \in 1..Len(readLog) :
               (KindOf(readLog[i]) = "Delete" /\ LastWriteOfAuthor(i))
               => RecordsOf(Lower(readLog[i].author)) = {}

(* C10 as claimed: a resolve command with amount N from user A naming user B
   lowers by exactly N the amount of A's record and of B's record for the
   command's ceremony date and changes no other record. *)
C10_ResolveDecrementsBothByN ==
    [][(AtMessage /\ KindOf(inbox[pos]) = "ResolveTuple") =>
          LET c == CommandOf(inbox[pos])
              N == IntOf(c.amount)
              iA == find_one(db.users, Lower(c.user), c.date)
              iB == find_one(db.users, Lower(c.resolve_with), c.date)
          IN  (iA # 0 /\ iB # 0) =>
                  /\ Len(db'.users) = Len(db.users)
                  /\ \A i \in 1..Len(db.users) :
                         IF i \in {iA, iB}
                         THEN /\ db'.users[i].amount.val = db.users[i].amount.val - N
                              /\ [db'.users[i] EXCEPT !.amount = 0]
                                     = [db.users[i] EXCEPT !.amount = 0]
                         ELSE db'.users[i] = db.users[i]]_vars

(* C10 as amended: A's record and B's record are the first records the store
   holds for (A, date) and (B, date).  If A and B are different users and
   both records exist, each is lowered by exactly N; if A names themselves,
   that one record is lowered by 2N; if A has no such record nothing changes;
   if only B has none, A's record alone is lowered by N.  No other record
   changes, and no record is added or removed. *)
C10_ResolveDecrements ==
    [][(AtMessage /\ KindOf(inbox[pos]) = "ResolveTuple") =>
          LET c == CommandOf(inbox[pos])
              N == IntOf(c.amount)
              iA == find_one(db.users, Lower(c.user), c.date)
              iB == find_one(db.users, Lower(c.resolve_with), c.date)
              drop(i) == (IF i = iA THEN N ELSE 0)
                         + (IF iA # 0 /\ i = iB THEN N ELSE 0)
          IN  /\ Len(db'.users) = Len(db.users)
              /\ \A i \in 1..Len(db.users) :
                     IF drop(i) = 0
                     THEN db'.users[i] = db.users[i]
                     ELSE /\ db'.users[i].amount.val = db.users[i].amount.val - drop(i)
                          /\ [db'.users[i] EXCEPT !.amount = 0]
                                 = [db.users[i] EXCEPT !.amount = 0]]_vars

\* a resolve between two different users has just been applied to both records
C10_Witness ==
    /\ pc = "inbox"
    /\ Len(outbox) >= 2
    /\ outbox[Len(outbox)].kind = "resolve_confirmation"
    /\ Lower(outbox[Len(outbox)].to) # Lower(outbox[Len(outbox) - 1].to)
    /\ \E i, j \in 1..Len(db.users) :
           /\ i # j
           /\ db.users[i].amount.kind = "int"
           /\ db.users[j].amount.kind = "int"
           /\ db.users[i].user_name # db.users[j].user_name

-----------------------------------------------------------------------------
(* The parser on one inbox: a work cycle over an inbox drawn from the       *)
(* command texts below, the store empty.                                    *)

MaxParseMsgs == 2

PB_resolve_nodate == <<TRIGGER_TOKEN, "resolve", "5", "/u/jpfau">>
PB_resolve_noamount == <<TRIGGER_TOKEN, "resolve", "/u/jpfau", K1>>
PB_buy_dayonly == <<TRIGGER_TOKEN, "buy", "5", D1midnight>>
PB_sell_k1pm == <<TRIGGER_TOKEN, "sell", "3", K1pm>>
PB_buy_unparseable == <<TRIGGER_TOKEN, "buy", "5", "someday">>
PB_buy_nokey == <<TRIGGER_TOKEN, "buy", "5", "January 1, 2017 9:00 AM">>
PB_buy_nodate == <<TRIGGER_TOKEN, "buy", "5">>
PB_unknown == <<TRIGGER_TOKEN, "hello">>
PB_buy_100 == <<TRIGGER_TOKEN, "buy", "100", K1>>
PB_midline == <<"please", TRIGGER_TOKEN, "buy", "5", K1>>
PB_buy_zero == <<TRIGGER_TOKEN, "buy", "0", K1>>
PB_resolve_00 == <<TRIGGER_TOKEN, "resolve", "00", "/u/bob", K1>>
PB_resolve_nokey == <<TRIGGER_TOKEN, "resolve", "3", "/u/bob", "January 1, 2017 9:00 AM">>
PB_resolve_dayonly == <<TRIGGER_TOKEN, "resolve", "2", "/u/jpfau", D1midnight>>

ParseBodies ==
    {PB_resolve_nodate, PB_resolve_noamount, PB_buy_dayonly, PB_sell_k1pm,
     PB_buy_unparseable, PB_buy_nokey, PB_buy_nodate, PB_unknown, PB_buy_100,
     PB_midline, PB_buy_zero, PB_resolve_00, PB_resolve_nokey,
     PB_resolve_dayonly, B_buy, B_sell}

ParseInboxes ==
    UNION {[1..n -> [author : Authors, body : ParseBodies]] : n \in 1..MaxParseMsgs}

InitParse ==
    /\ page = CeremonyData
    /\ ceremony_dict = get_ceremony_dict
    /\ inbox \in ParseInboxes
    /\ sent = Len(inbox)
    /\ add_queue = <<>>
    /\ delete_queue = <<>>
    /\ db = EmptyDb
    /\ pc = "init"
    /\ pos = 0
    /\ outbox = <<>>
    /\ readLog = <<>>
    /\ NoMatching
    /\ NoMarkdown

NextParse ==
    \/ StartWork
    \/ ProcessMessage
    \/ Flush
    \/ CreateOrUpdateMegathreads

SpecParse == InitParse /\ [][NextParse]_vars

\* the message the for loop is about to handle
Msg == inbox[pos]

\* the date text of a new-record command: the tokens after the amount
GivenDate(body) == SubSeq(body, 4, Len(body))

\* the canonical keys of the calendar that fall on the day of dt
KeysOfDay(dt) ==
    {ceremony_dict.keys[j] : j \in
        {i \in 1..Len(ceremony_dict.keys) : ParseText(ceremony_dict.keys[i]).day = dt.day}}

-----------------------------------------------------------------------------
(* Resolve commands *)

\* "!FAUbot resolve N name" or "!FAUbot resolve N /u/name", N in 1..99, no date
IsResolveWithoutDate(body) ==
    /\ Len(body) = 4
    /\ body[1] = TRIGGER_TOKEN
    /\ body[2] = "resolve"
    /\ IntOf(body[3]) \in 1..99
    /\ UserGroup(body[4]) # ""

\* C11: a resolve command that carries an amount and a username but no date
\* parses to a Resolve result with that username and amount, and handling
\* the message raises no error of the parser.
C11_ResolveWithoutDateParses ==
    [][(AtMessage /\ IsResolveWithoutDate(Msg.body)) =>
          /\ CommandOf(Msg).kind = "ResolveTuple"
          /\ CommandOf(Msg).resolve_with = UserGroup(Msg.body[4])
          /\ CommandOf(Msg).amount = Msg.body[3]
          /\ ~(pc' = "failed" /\ CommandOf(Msg).kind = "Unclassified")]_vars

\* "!FAUbot resolve name date": a resolve command without the amount
IsResolveWithoutAmount(body) ==
    /\ Len(body) >= 3
    /\ body[1] = TRIGGER_TOKEN
    /\ body[2] = "resolve"
    /\ ~Digits12(body[3])
    /\ UserGroup(body[3]) # ""

\* C12: a resolve command that omits the amount is accepted, not rejected as
\* InvalidCommand: no invalid-command reply is sent, and afterwards the
\* records of the author and of the named user for the date hold amount zero.
C12_ResolveWithoutAmountAccepted ==
    [][(AtMessage /\ IsResolveWithoutAmount(Msg.body)) =>
          /\ CommandOf(Msg).kind # "InvalidCommand"
          /\ outbox' # Append(outbox, Reply(Msg.author, "invalid_command_reply"))
          /\ LET who == {Lower(Msg.author), Lower(UserGroup(Msg.body[3]))}
                 date == FirstKey(ceremony_dict, parse(GivenDate(Msg.body)))
             IN  \A i \in 1..Len(db'.users) :
                    (db'.users[i].user_name \in who /\ db'.users[i].ceremony_date = date)
                        => db'.users[i].amount.val = 0]_vars

-----------------------------------------------------------------------------
(* New-record commands *)

\* a buy or sell command whose date text parses to a day that a canonical
\* key of the calendar falls on
IsNewRecordOnCeremonyDay(body) ==
    /\ ~HasDeleteCommand(body)
    /\ COMMAND_PATTERN(body)
    /\ parse(GivenDate(body)).ok
    /\ KeysOfDay(parse(GivenDate(body))) # {}

\* C13: a new-record command whose date text denotes the calendar day of a
\* canonical key parses to a NewRecord with the lowercased author, the
\* operation, the amount as an integer and that canonical key as date, and
\* this is the record the loop queues.
C13_NewRecordCarriesFields ==
    [][(AtMessage /\ IsNewRecordOnCeremonyDay(Msg.body)) =>
          /\ CommandOf(Msg).kind = "UserTuple"
          /\ CommandOf(Msg).user = Lower(Msg.author)
          /\ CommandOf(Msg).operation = Msg.body[2]
          /\ CommandOf(Msg).date \in KeysOfDay(parse(GivenDate(Msg.body)))
          /\ Len(add_queue') = Len(add_queue) + 1
          /\ add_queue'[Len(add_queue')].amount = IntAmount(IntOf(Msg.body[3]))]_vars

\* C14: date resolution is by calendar-day equality: a date text whose day
\* is that of a canonical key resolves to that key whatever the time of day
\* of either, and two texts of the inbox that denote the same day resolve to
\* the same key.
C14_ResolutionByCalendarDay ==
    [][(AtMessage /\ IsNewRecordOnCeremonyDay(Msg.body)) =>
          LET dt == parse(GivenDate(Msg.body))
          IN  /\ FirstKey(ceremony_dict, dt) \in KeysOfDay(dt)
              /\ add_queue' # add_queue
              /\ \A i \in 1..Len(inbox) :
                    (/\ IsNewRecordOnCeremonyDay(inbox[i].body)
                     /\ parse(GivenDate(inbox[i].body)).day = dt.day)
                    => FirstKey(ceremony_dict, parse(GivenDate(inbox[i].body)))
                           = FirstKey(ceremony_dict, dt)]_vars

\* a buy or sell command whose date text is present but unparseable, or
\* parses to a day no canonical key falls on
IsNewRecordBadDate(body) ==
    /\ ~HasDeleteCommand(body)
    /\ COMMAND_PATTERN(body)
    /\ GivenDate(body) # <<>>
    /\ \/ ~parse(GivenDate(body)).ok
       \/ KeysOfDay(parse(GivenDate(body))) = {}

\* C15: a new-record command whose date text is present but unparseable or
\* on a day of no canonical key fails with InvalidCeremonyDate carrying the
\* given text and the canonical dates; the author is told so, nothing is
\* queued and the store is not touched.
C15_BadDateIsInvalidCeremonyDate ==
    [][(AtMessage /\ IsNewRecordBadDate(Msg.body)) =>
          /\ \A e \in ParseNoneOutcomes :
                LET c == parse_command(Msg.body, Msg.author, ceremony_dict, e)
                IN  /\ c.kind = "InvalidCeremonyDate"
                    /\ c.given = GivenDate(Msg.body)
                    /\ c.choices = ceremony_dict.keys
          /\ outbox' = Append(outbox, Reply(Msg.author, "invalid_ceremony_reply"))
          /\ add_queue' = add_queue
          /\ delete_queue' = delete_queue
          /\ db' = db
          /\ pc' = "inbox"]_vars

\* both kinds of bad date were handled in this cycle and nothing is queued
C15_Witness ==
    /\ pc = "inbox"
    /\ Len(readLog) = 2
    /\ IsNewRecordBadDate(readLog[1].body) /\ ~parse(GivenDate(readLog[1].body)).ok
    /\ IsNewRecordBadDate(readLog[2].body) /\ parse(GivenDate(readLog[2].body)).ok
    /\ Len(outbox) = 2
    /\ add_queue = <<>>

\* "!FAUbot buy N" or "!FAUbot sell N": the date text is missing
IsNewRecordWithoutDate(body) ==
    /\ ~HasDeleteCommand(body)
    /\ COMMAND_PATTERN(body)
    /\ GivenDate(body) = <<>>

\* C16: a buy or sell command without a date text fails with
\* MissingCeremonyDate carrying the operation, the amount and the canonical
\* dates, whatever the library does on the missing text; the author gets the
\* missing-date reply and no exception ends the cycle.
C16_NoDateIsMissingCeremonyDate ==
    [][(AtMessage /\ IsNewRecordWithoutDate(Msg.body)) =>
          /\ \A e \in ParseNoneOutcomes :
                LET c == parse_command(Msg.body, Msg.author, ceremony_dict, e)
                IN  /\ c.kind = "MissingCeremonyDate"
                    /\ c.operation = Msg.body[2]
                    /\ c.amount = Msg.body[3]
                    /\ c.choices = ceremony_dict.keys
          /\ outbox' = Append(outbox, Reply(Msg.author, "missing_ceremony_reply"))
          /\ pc' = "inbox"]_vars

-----------------------------------------------------------------------------
(* Bodies that are no command *)

\* the trigger is there, the body is no delete command and matches neither
\* the new-record nor the resolve pattern
IsUnknownCommand(body) ==
    /\ HasTrigger(body)
    /\ ~HasDeleteCommand(body)
    /\ ~COMMAND_PATTERN(body)
    /\ ~RESOLVE_PATTERN(body)

\* C17: a body that contains the trigger, is not the delete command and
\* matches neither pattern fails with InvalidCommand carrying the body as it
\* was sent, and the author gets the invalid-command reply.
C17_UnknownIsInvalidCommand ==
    [][(AtMessage /\ IsUnknownCommand(Msg.body)) =>
          /\ \A e \in ParseNoneOutcomes :
                LET c == parse_command(Msg.body, Msg.author, ceremony_dict, e)
                IN  c.kind = "InvalidCommand" /\ c.body = Msg.body
          /\ outbox' = Append(outbox, Reply(Msg.author, "invalid_command_reply"))
          /\ pc' = "inbox"]_vars

\* three bodies with the trigger that are no command were answered: an
\* unknown word, a three-digit amount and a trigger in mid-line
C17_Witness ==
    /\ pc = "inbox"
    /\ Len(readLog) = 2
    /\ readLog[1].body \in {PB_unknown, PB_buy_100}
    /\ readLog[2].body \in {PB_midline, PB_resolve_noamount}
    /\ outbox = <<Reply(readLog[1].author, "invalid_command_reply"),
                  Reply(readLog[2].author, "invalid_command_reply")>>

-----------------------------------------------------------------------------
(* Classified errors in the inbox loop *)

ClassifiedErrors == {"InvalidCommand", "InvalidCeremonyDate", "MissingCeremonyDate"}

\* the reply the inbox loop sends for a classified error
ErrorReply(kind) ==
    CASE kind = "InvalidCommand" -> "invalid_command_reply"
      [] kind = "InvalidCeremonyDate" -> "invalid_ceremony_reply"
      [] kind = "MissingCeremonyDate" -> "missing_ceremony_reply"

\* the step handles a message whose parsing yields a classified error; for a
\* missing date that is the case when the step did not end in an exception
YieldsClassifiedError ==
    /\ AtMessage
    /\ ~HasDeleteCommand(Msg.body)
    /\ \/ CommandOf(Msg).kind \in {"InvalidCommand", "InvalidCeremonyDate"}
       \/ CommandOf(Msg).kind = "MissingCeremonyDate" /\ pc' # "failed"

\* C18: a message whose parsing yields InvalidCommand, InvalidCeremonyDate
\* or MissingCeremonyDate gets exactly one reply, to its author, is marked
\* read, changes neither queue nor the store, and the loop goes on with the
\* message that follows it.
C18_ClassifiedErrorHandling ==
    [][YieldsClassifiedError =>
          /\ outbox' = Append(outbox, Reply(Msg.author, ErrorReply(CommandOf(Msg).kind)))
          /\ readLog' = Append(readLog, Msg)
          /\ inbox' = SubSeq(inbox, 1, pos - 1) \o SubSeq(inbox, pos + 1, Len(inbox))
          /\ add_queue' = add_queue
          /\ delete_queue' = delete_queue
          /\ db' = db
          /\ pc' = "inbox"
          /\ pos' = pos]_vars

\* an erroneous message was answered and marked read, and the message after
\* it was then accepted and queued
C18_Witness ==
    /\ pc = "inbox"
    /\ Len(readLog) = 2
    /\ KindOf(readLog[1]) \in ClassifiedErrors
    /\ KindOf(readLog[2]) = "UserTuple"
    /\ outbox = <<Reply(readLog[1].author, ErrorReply(KindOf(readLog[1]))),
                  Reply(readLog[2].author, "new_user_reply")>>
    /\ Len(add_queue) = 1
    /\ inbox = <<>>

-----------------------------------------------------------------------------
(* Amounts *)

\* C19: every amount the parser accepts is an integer in 1..99: a command
\* with amount 0 or 00 yields neither a NewRecord nor a Resolve, and every
\* queued record holds its amount as an integer of that range.
C19_AmountIsIntegerInRange ==
    [][(AtMessage /\ ~HasDeleteCommand(Msg.body)) =>
          /\ CommandOf(Msg).kind \in {"UserTuple", "ResolveTuple"}
                => IntOf(CommandOf(Msg).amount) \in 1..99
          /\ \A i \in 1..Len(add_queue') :
                /\ add_queue'[i].amount.kind = "int"
                /\ add_queue'[i].amount.val \in 1..99]_vars

-----------------------------------------------------------------------------
(* The calendar on its own: the bot is constructed over a scraped page      *)
(* drawn from the lines below.                                              *)

MaxLines == 3

CalLines == {K1, K1pm, K1short, D1midnight, K2, "College of Science"}

Pages == UNION {[1..n -> CalLines] : n \in 0..MaxLines}

NotBuilt == [keys |-> <<>>, slots |-> <<>>, raised |-> FALSE]

InitCal ==
    /\ page \in Pages
    /\ ceremony_dict = NotBuilt
    /\ inbox = <<>>
    /\ sent = 0
    /\ add_queue = <<>>
    /\ delete_queue = <<>>
    /\ db = EmptyDb
    /\ pc = "new"
    /\ pos = 0
    /\ outbox = <<>>
    /\ readLog = <<>>
    /\ NoMatching
    /\ NoMarkdown

\* __init__: self.ceremony_dict = self.get_ceremony_dict(); an exception of
\* the build ends the construction
Construct ==
    /\ pc = "new"
    /\ ceremony_dict' = refresh_ceremony_dict(ceremony_dict, page)
    /\ pc' = IF _get_ceremony_dict(page).raised THEN "crashed" ELSE "init"
    /\ UNCHANGED <<page, inbox, sent, add_queue, delete_queue, db, pos, outbox,
                   readLog>>
    /\ UNCHANGED <<matchVars, mdVars>>

NextCal == Construct

SpecCal == InitCal /\ [][NextCal]_vars

\* the calendar was built from the page
Built == pc = "init"

\* the days the page lists with a time of day
ListedDays ==
    {ParseText(page[i]).day : i \in
        {j \in 1..Len(page) : ParseText(page[j]).ok /\ ParseText(page[j]).hour # 0}}

\* C20: the built calendar holds exactly one canonical key for every
\* ceremony day the page lists, also when the page lists a day several times
\* with different times.
C20_OneKeyPerCeremonyDay ==
    Built =>
        \A day \in ListedDays :
            Cardinality({i \in 1..Len(ceremony_dict.keys) :
                            ParseText(ceremony_dict.keys[i]).day = day}) = 1

-----------------------------------------------------------------------------
(* Matching buyers and sellers: match_ticket_users and what it calls.  A    *)
(* time is a number of hours; a document holds last_notified only once it   *)
(* was stamped.                                                             *)

\* _has_last_notified
_has_last_notified(user) == "last_notified" \in DOMAIN user

\* mutation of _get_users_by_date_and_operation_new: the has_tickets filter
\* is left out, as in _get_users_by_date_and_operation
_get_users_by_date_and_operation_AnyAmount(users, ceremony_date_string, operation) ==
    SelectSeq(users, LAMBDA u : /\ u.ceremony_date = ceremony_date_string
                                /\ u.operation = operation)

\* _get_users_by_date_and_operation_new with has_tickets=True
_get_users_by_date_and_operation_new(users, ceremony_date_string, operation) ==
    SelectSeq(users, LAMBDA u : /\ u.ceremony_date = ceremony_date_string
                                /\ u.operation = operation
                                /\ u.amount.val > 0)

\* mutation of _get_users_by_date_and_operations_new: the limit is compared
\* the other way round
_get_users_by_date_and_operations_Recent(users, ceremony_date_string, last_notify_hours, t) ==
    LET buy == _get_users_by_date_and_operation_new(users, ceremony_date_string, "buy")
        sell == _get_users_by_date_and_operation_new(users, ceremony_date_string, "sell")
        limit == t - last_notify_hours
        gate(val) == SelectSeq(val, LAMBDA u : \/ ~_has_last_notified(u)
                                               \/ u.last_notified >= limit)
    IN  IF last_notify_hours > 0
        THEN [date |-> ceremony_date_string, buy |-> gate(buy), sell |-> gate(sell)]
        ELSE [date |-> ceremony_date_string, buy |-> buy, sell |-> sell]

\* _get_users_by_date_and_operations_new at time t
_get_users_by_date_and_operations_new(users, ceremony_date_string, last_notify_hours, t) ==
    LET buy == _get_users_by_date_and_operation_new(users, ceremony_date_string, "buy")
        sell == _get_users_by_date_and_operation_new(users, ceremony_date_string, "sell")
        limit == t - last_notify_hours
        gate(val) == SelectSeq(val, LAMBDA u : \/ ~_has_last_notified(u)
                                               \/ u.last_notified <= limit)
    IN  IF last_notify_hours > 0
        THEN [date |-> ceremony_date_string, buy |-> gate(buy), sell |-> gate(sell)]
        ELSE [date |-> ceremony_date_string, buy |-> buy, sell |-> sell]

\* get_users_for_notification_new: the dates with a buyer or a seller, in
\* the order of the calendar
get_users_for_notification_new(users, cdict, last_notify_hours, t) ==
    LET all == [i \in 1..Len(cdict.keys) |->
                   _get_users_by_date_and_operations_new(users, cdict.keys[i],
                                                         last_notify_hours, t)]
    IN  SelectSeq(all, LAMBDA od : od.buy # <<>> \/ od.sell # <<>>)

\* the order of Python's str comparison on the digit strings the model uses
LexRank(tok) ==
    CASE tok = "0" -> 1
      [] tok = "00" -> 2
      [] tok = "10" -> 3
      [] tok = "2" -> 4
      [] tok = "3" -> 5
      [] tok = "4" -> 6
      [] tok = "5" -> 7
      [] OTHER -> 8

\* a['amount'] < b['amount'] for two amounts of one type
AmountLess(a, b) ==
    IF a.kind = "int" THEN a.val < b.val ELSE LexRank(a.tok) < LexRank(b.tok)

\* sorted() compares a str with an int: TypeError
SortRaises(list) ==
    \E i, j \in 1..Len(list) : list[i].amount.kind # list[j].amount.kind

RECURSIVE InsertByAmount(_, _, _)
\* x goes before the first element from position i on that is greater
InsertByAmount(list, x, i) ==
    IF i > Len(list) THEN Append(list, x)
    ELSE IF AmountLess(x.amount, list[i].amount)
         THEN SubSeq(list, 1, i - 1) \o <<x>> \o SubSeq(list, i, Len(list))
         ELSE InsertByAmount(list, x, i + 1)

RECURSIVE SortedFrom(_, _, _)
SortedFrom(list, i, acc) ==
    IF i > Len(list) THEN acc
    ELSE SortedFrom(list, i + 1, InsertByAmount(acc, list[i], 1))

\* sorted(list, key=lambda s: s['amount']): stable, ascending by the raw value
sorted_by_amount(list) == SortedFrom(list, 1, <<>>)

\* the keys of {u['user_name']: ... for u in list}, in insertion order
DictKeys(list) ==
    LET first == SelectSeq([i \in 1..Len(list) |-> i],
                     LAMBDA i : \A j \in 1..(i - 1) : list[j].user_name # list[i].user_name)
    IN  [k \in 1..Len(first) |-> list[first[k]].user_name]

\* what a notification shows of a counter-party
Summary(u) == [user_name |-> u.user_name, operation |-> u.operation, amount |-> u.amount]

\* notify_buyers / notify_sellers: one "It's a match!" message per key of
\* to_notify, listing the sorted counter-parties
_notify_buyers_sellers(names, list_users, operation, date) ==
    [k \in 1..Len(names) |->
        [to |-> names[k], operation |-> operation, date |-> date,
         users |-> [i \in 1..Len(list_users) |-> Summary(list_users[i])]]]

RECURSIVE MatchLoop(_, _, _)
\* the for loop of match_ticket_users from the i-th date on
MatchLoop(users, i, msgs) ==
    IF i > Len(users) THEN [sent |-> msgs, raised |-> FALSE]
    ELSE
        LET buyers == users[i].buy
            sellers == users[i].sell
        IN  IF \/ buyers # <<>> /\ SortRaises(sellers)
               \/ sellers # <<>> /\ SortRaises(buyers)
            THEN [sent |-> msgs, raised |-> TRUE]
            ELSE MatchLoop(users, i + 1,
                     msgs \o _notify_buyers_sellers(DictKeys(buyers),
                                                    sorted_by_amount(sellers), "buy",
                                                    users[i].date)
                          \o _notify_buyers_sellers(DictKeys(sellers),
                                                    sorted_by_amount(buyers), "sell",
                                                    users[i].date))

\* _set_user_notified: update_item on the DynamoDB table creates or
\* overwrites the item of the key
_set_user_notified(table, user_name, ceremony_date, notify_date) ==
    {it \in table : ~(it.user_name = user_name /\ it.ceremony_date = ceremony_date)}
        \cup {[user_name |-> user_name, ceremony_date |-> ceremony_date,
               last_notified |-> notify_date]}

RECURSIVE StampList(_, _, _, _, _)
StampList(table, list, i, ceremony_date, t) ==
    IF i > Len(list) THEN table
    ELSE StampList(_set_user_notified(table, list[i].user_name, ceremony_date, t),
                   list, i + 1, ceremony_date, t)

RECURSIVE _set_users_notified(_, _, _, _)
\* _set_users_notified: every user of every date of user_dict, in the
\* DynamoDB table
_set_users_notified(table, user_dict, i, t) ==
    IF i > Len(user_dict) THEN table
    ELSE _set_users_notified(
             StampList(table, user_dict[i].buy \o user_dict[i].sell, 1,
                       user_dict[i].date, t),
             user_dict, i + 1, t)

\* match_ticket_users at time t.  aws = "error" stands for boto3 failing on
\* the first update_item (no credentials, no table).
match_ticket_users(d, cdict, last_notify_hours, t, table, aws) ==
    LET users == get_users_for_notification_new(d.users, cdict, last_notify_hours, t)
        loop == MatchLoop(users, 1, <<>>)
    IN  IF loop.raised
        THEN [sent |-> loop.sent, raised |-> TRUE, table |-> table, db |-> d]
        ELSE IF users # <<>> /\ aws = "error"
             THEN [sent |-> loop.sent, raised |-> TRUE, table |-> table, db |-> d]
             ELSE [sent |-> loop.sent, raised |-> FALSE,
                   table |-> _set_users_notified(table, users, 1, t), db |-> d]

-----------------------------------------------------------------------------
(* Matching runs over a store: the documents are drawn from the profiles    *)
(* below, one per user, and match_ticket_users runs at times of a clock.    *)

MaxRuns == 2
MaxNow == 3

MatchUsers == <<"alice", "bob", "carol">>

NotifyIntervals == {0, 2}

Unset == -1

\* [ceremony_date, operation, amount, last_notified or Unset]
MatchProfiles ==
    {<<K1, "buy", StrAmount("5"), Unset>>,
     <<K1, "buy", IntAmount(3), Unset>>,
     <<K1, "buy", IntAmount(0), Unset>>,
     <<K1, "buy", StrAmount("5"), 0>>,
     <<K1, "sell", StrAmount("5"), Unset>>,
     <<K1, "sell", StrAmount("10"), Unset>>,
     <<K1, "sell", StrAmount("0"), Unset>>,
     <<K1, "sell", IntAmount(2), Unset>>,
     <<K1, "sell", StrAmount("5"), 0>>,
     <<K2, "sell", StrAmount("5"), Unset>>}

\* the document of user i with profile p
MatchDocument(i, p) ==
    LET item == WithId([user_name |-> MatchUsers[i], ceremony_date |-> p[1],
                        operation |-> p[2], amount |-> p[3], resolved |-> FALSE], i)
    IN  IF p[4] = Unset THEN item
        ELSE [f \in DOMAIN item \cup {"last_notified"} |->
                 IF f = "last_notified" THEN p[4] ELSE item[f]]

MatchStores ==
    UNION {{[i \in 1..n |-> MatchDocument(i, ps[i])] : ps \in [1..n -> MatchProfiles]} :
              n \in 0..Len(MatchUsers)}

InitMatch ==
    /\ page = CeremonyData
    /\ ceremony_dict = get_ceremony_dict
    /\ inbox = <<>>
    /\ sent = 0
    /\ add_queue = <<>>
    /\ delete_queue = <<>>
    /\ \E store \in MatchStores :
           db = [users |-> store, nextId |-> Len(store) + 1, calls |-> <<>>]
    /\ pc = "init"
    /\ pos = 0
    /\ outbox = <<>>
    /\ readLog = <<>>
    /\ now = 1
    /\ notify_interval \in NotifyIntervals
    /\ ticketbot_table = {}
    /\ match_log = <<>>
    /\ NoMarkdown

\* one call of match_ticket_users between two work cycles
MatchTicketUsers ==
    /\ Idle
    /\ Len(match_log) < MaxRuns
    /\ \E aws \in {"ok", "error"} :
        LET r == match_ticket_users(db, ceremony_dict, notify_interval, now,
                                    ticketbot_table, aws)
        IN  /\ match_log' = Append(match_log,
                                [time |-> now, sent |-> r.sent, raised |-> r.raised])
            /\ ticketbot_table' = r.table
            /\ db' = r.db
    /\ UNCHANGED <<page, ceremony_dict, inbox, sent, add_queue, delete_queue, pc, pos,
                   outbox, readLog, now, notify_interval, mdVars>>

\* an hour passes
Tick ==
    /\ now < MaxNow
    /\ now' = now + 1
    /\ UNCHANGED <<page, ceremony_dict, inbox, sent, add_queue, delete_queue, db, pc,
                   pos, outbox, readLog, notify_interval, ticketbot_table, match_log,
                   mdVars>>

NextMatch ==
    \/ MatchTicketUsers
    \/ Tick

SpecMatch == InitMatch /\ [][NextMatch]_vars

-----------------------------------------------------------------------------
(* Vocabulary of the matching properties *)

\* the candidate pools of a date under a notify interval, at the present time
Pools(date, hours) ==
    _get_users_by_date_and_operations_new(db.users, date, hours, now)

CalendarDates == {ceremony_dict.keys[i] : i \in 1..Len(ceremony_dict.keys)}

Elements(list) == {list[i] : i \in 1..Len(list)}

Runs == 1..Len(match_log)

\* the messages of run r
SentIn(r) == Elements(match_log[r].sent)

\* the step is a run of match_ticket_users
MatchingRan == Len(match_log') = Len(match_log) + 1

\* message m includes the document u: u is its addressee or one of the
\* counter-parties it lists, for the date of the message
Includes(m, u) ==
    /\ u.ceremony_date = m.date
    /\ \/ u.user_name = m.to
       \/ \E x \in Elements(m.users) : x.user_name = u.user_name

\* C21: every work cycle runs, after its flush, the matching of buyers and
\* sellers and the dispatch of the match notifications: a cycle that has
\* completed has a matching run behind it.
C21_MatchingInEveryCycle ==
    pc = "done" => match_log # <<>>

\* C22: no record whose amount is 0 is in a buyer or seller pool, for any
\* ceremony date and any notify interval, and none is listed in a
\* notification of a matching run.
C22_NoZeroAmountInPools ==
    /\ \A date \in CalendarDates, hours \in NotifyIntervals :
          \A u \in Elements(Pools(date, hours).buy) \cup Elements(Pools(date, hours).sell) :
              u.amount.val # 0
    /\ \A r \in Runs : \A m \in SentIn(r) :
          /\ \A x \in Elements(m.users) : x.amount.val # 0
          /\ \A u \in Elements(db.users) :
                (u.user_name = m.to /\ u.ceremony_date = m.date) => u.amount.val # 0

\* a run notified a buyer of the date although a record of amount 0 sells
\* on that date
C22_Witness ==
    \E r \in Runs : \E m \in SentIn(r) :
        /\ m.operation = "buy"
        /\ m.users # <<>>
        /\ \E u \in Elements(db.users) :
              u.ceremony_date = m.date /\ u.operation = "sell" /\ u.amount.val = 0

\* u was notified less than the interval before time t
RecentlyNotified(u, t) ==
    /\ _has_last_notified(u)
    /\ t - u.last_notified < notify_interval

\* C23: a record is in a pool of its date only if its last_notified is unset
\* or at least the notify interval old; a record notified more recently gets
\* no notification in a run and is listed in no notification for that date.
C23_RenotificationGate ==
    /\ \A date \in CalendarDates :
          \A u \in Elements(Pools(date, notify_interval).buy)
                     \cup Elements(Pools(date, notify_interval).sell) :
              ~RecentlyNotified(u, now)
    /\ \A r \in Runs : \A m \in SentIn(r) : \A u \in Elements(db.users) :
          RecentlyNotified(u, match_log[r].time) => ~Includes(m, u)

\* a first run left out a record notified an hour before, and a later run,
\* the interval over, notified its user
C23_Witness ==
    /\ Len(match_log) = 2
    /\ \E u \in Elements(db.users) :
          /\ RecentlyNotified(u, match_log[1].time)
          /\ u.amount.val > 0
          /\ match_log[1].sent # <<>>
          /\ \E m \in SentIn(2) : m.to = u.user_name /\ m.date = u.ceremony_date

\* C24: after a matching run every record that a notification of the run
\* included holds the time of the run as last_notified, in the store the
\* next run reads.
C24_NotifiedRecordsStamped ==
    [][(MatchingRan /\ ~match_log'[Len(match_log')].raised) =>
          \A m \in Elements(match_log'[Len(match_log')].sent) :
              \A u \in Elements(db'.users) :
                  Includes(m, u) =>
                      /\ _has_last_notified(u)
                      /\ u.last_notified = match_log'[Len(match_log')].time]_vars

\* C25: over the matching runs, the same user is not sent two match
\* notifications for the same ceremony date less than the notify interval
\* apart.
C25_NoRenotificationWithinInterval ==
    \A r1, r2 \in Runs :
        r1 < r2 =>
            \A m1 \in SentIn(r1), m2 \in SentIn(r2) :
                (m1.to = m2.to /\ m1.date = m2.date)
                    => match_log[r2].time - match_log[r1].time >= notify_interval

\* C26: the counter-parties a notification lists are in ascending order of
\* their numeric amounts, whether an amount was changed by a resolve or not,
\* and listing them never fails.
C26_CandidatesAscendingByAmount ==
    [][MatchingRan =>
          /\ \A m \in Elements(match_log'[Len(match_log')].sent) :
                \A i, j \in 1..Len(m.users) :
                    i < j => m.users[i].amount.val <= m.users[j].amount.val
          /\ \A date \in CalendarDates :
                LET od == Pools(date, notify_interval)
                IN  /\ od.buy # <<>> => ~SortRaises(od.sell)
                    /\ od.sell # <<>> => ~SortRaises(od.buy)]_vars

-----------------------------------------------------------------------------
(* Exceptions inside a work cycle *)

\* no amount has sunk below the debt the model explores
DebtExplored ==
    \A i \in 1..Len(db.users) : db.users[i].amount.val >= 0 - MaxDebt

-----------------------------------------------------------------------------
(* Who may resolve *)

\* the author of msg holds a sell record for the date of the resolve command
ResolveBySeller(msg) ==
    /\ KindOf(msg) = "ResolveTuple"
    /\ LET i == find_one(db.users, Lower(msg.author), CommandOf(msg).date)
       IN  i # 0 /\ db.users[i].operation = "sell"

\* C28: a resolve command sent by a user whose record for that date has
\* operation sell is ignored: it changes no amount.
C28_ResolveOnlyFromBuyers ==
    [][(AtMessage /\ ResolveBySeller(Msg)) =>
          /\ Len(db'.users) = Len(db.users)
          /\ \A i \in 1..Len(db.users) : db'.users[i].amount = db.users[i].amount]_vars

-----------------------------------------------------------------------------
(* MarkdownMaker (src/mixins.py).  A string is a sequence of pieces: a cell *)
(* or word, a separator, or one newline.                                    *)

MaxLen == 4
MaxRows == 2
MaxCols == 2

NL == "\n"

\* new_line * n
Newlines(n) == [i \in 1..n |-> NL]

\* content.endswith(new_line * n)
EndsWithNewlines(content, n) ==
    /\ Len(content) >= n
    /\ \A i \in (Len(content) - n + 1)..Len(content) : content[i] = NL

\* tuple(abs(z) for z in range(2, -3, -1))
multipliers == <<2, 1, 0, 1, 2>>

RECURSIVE ParagraphLoop_NextMultiplier(_, _)
\* mutation of the loop of reddit_paragraph: multipliers[i+1] is appended
ParagraphLoop_NextMultiplier(content, i) ==
    IF EndsWithNewlines(content, multipliers[i])
    THEN content \o Newlines(multipliers[i + 1])
    ELSE ParagraphLoop_NextMultiplier(content, i + 1)

RECURSIVE ParagraphLoop(_, _)
\* the for loop of reddit_paragraph from the i-th multiplier on
ParagraphLoop(content, i) ==
    IF EndsWithNewlines(content, multipliers[i])
    THEN content \o Newlines(multipliers[i + 2])
    ELSE ParagraphLoop(content, i + 1)

reddit_paragraph(content) == ParagraphLoop(content, 1)

RECURSIVE Join(_, _, _)
\* sep.join(items) from the i-th item on
Join(items, sep, i) ==
    IF i > Len(items) THEN <<>>
    ELSE IF i = Len(items) THEN <<items[i]>>
         ELSE <<items[i], sep>> \o Join(items, sep, i + 1)

\* _r_table_divider
_r_table_divider(length) == Join([i \in 1..length |-> "---"], "|", 1) \o <<NL>>

\* reddit_table_row: an empty item is written as one space
reddit_table_row(row_items, header) ==
    LET row == Join([i \in 1..Len(row_items) |->
                        IF row_items[i] = "" THEN " " ELSE row_items[i]], " | ", 1)
               \o <<NL>>
    IN  IF header THEN row \o _r_table_divider(Len(row_items)) ELSE row

\* reddit_table_header
reddit_table_header(column_names) == reddit_table_row(column_names, TRUE)

RECURSIVE TableRows(_, _)
\* the rows of table_rows from the i-th on
TableRows(table_rows, i) ==
    IF i > Len(table_rows) THEN <<>>
    ELSE reddit_table_row(table_rows[i], FALSE) \o TableRows(table_rows, i + 1)

\* reddit_table: text, or raised for the IndexError of table_rows[0]
reddit_table(table_rows, header) ==
    IF header = <<>> /\ table_rows = <<>>
    THEN [text |-> <<>>, raised |-> TRUE]
    ELSE LET to_insert == IF header # <<>> THEN header ELSE table_rows[1]
             row_start_index == IF header # <<>> THEN 1 ELSE 2
         IN  [text |-> reddit_paragraph(reddit_table_header(to_insert)
                                        \o TableRows(table_rows, row_start_index)),
              raised |-> FALSE]

\* the contents and tables the calls are made with
Contents == UNION {[1..n -> {"foo", NL}] : n \in 0..MaxLen}

Cells == {"title", ""}

Tables ==
    UNION {{[rows |-> rows, header |-> header] :
               rows \in UNION {[1..n -> [1..w -> Cells]] : n \in 0..MaxRows},
               header \in [1..w -> Cells] \cup {<<>>}} :
           w \in 1..MaxCols}

InitMarkdown ==
    /\ page = CeremonyData
    /\ ceremony_dict = get_ceremony_dict
    /\ inbox = <<>>
    /\ sent = 0
    /\ add_queue = <<>>
    /\ delete_queue = <<>>
    /\ db = EmptyDb
    /\ pc = "init"
    /\ pos = 0
    /\ outbox = <<>>
    /\ readLog = <<>>
    /\ NoMatching
    /\ \/ \E content \in Contents : md_input = [fn |-> "paragraph", content |-> content]
       \/ \E table \in Tables :
              md_input = [fn |-> "table", rows |-> table.rows, header |-> table.header]
    /\ md_output = <<>>

\* reddit_paragraph on the content, then on its own result
CallRedditParagraph ==
    /\ md_input.fn = "paragraph"
    /\ Len(md_output) < 2
    /\ md_output' = Append(md_output,
                           reddit_paragraph(IF md_output = <<>> THEN md_input.content
                                            ELSE md_output[Len(md_output)]))
    /\ UNCHANGED <<page, ceremony_dict, inbox, sent, add_queue, delete_queue, db, pc,
                   pos, outbox, readLog, matchVars, md_input>>

\* reddit_table(rows, header), then reddit_table([header] + rows, ())
CallRedditTable ==
    /\ md_input.fn = "table"
    /\ \/ /\ md_output = <<>>
          /\ md_output' = <<reddit_table(md_input.rows, md_input.header)>>
       \/ /\ Len(md_output) = 1
          /\ md_input.header # <<>>
          /\ md_output' = Append(md_output,
                                 reddit_table(<<md_input.header>> \o md_input.rows, <<>>))
    /\ UNCHANGED <<page, ceremony_dict, inbox, sent, add_queue, delete_queue, db, pc,
                   pos, outbox, readLog, matchVars, md_input>>

NextMarkdown ==
    \/ CallRedditParagraph
    \/ CallRedditTable

SpecMarkdown == InitMarkdown /\ [][NextMarkdown]_vars

-----------------------------------------------------------------------------
(* Vocabulary of the markdown properties *)

RECURSIVE TrailingNewlines(_)
\* the number of newlines content ends with
TrailingNewlines(content) ==
    IF content = <<>> \/ content[Len(content)] # NL THEN 0
    ELSE 1 + TrailingNewlines(SubSeq(content, 1, Len(content) - 1))

\* the fewest newlines that make content end in at least two
MissingNewlines(content) ==
    IF TrailingNewlines(content) >= 2 THEN 0 ELSE 2 - TrailingNewlines(content)

\* C29: reddit_paragraph(content) is content followed by the fewest newlines
\* that make it end in at least two: none after two or more, one after
\* exactly one, two otherwise; nothing is removed, and applying it to its
\* own result returns that result.
C29_ParagraphEndsInTwoNewlines ==
    md_input.fn = "paragraph" =>
        /\ Len(md_output) >= 1 =>
              md_output[1] = md_input.content \o Newlines(MissingNewlines(md_input.content))
        /\ Len(md_output) >= 2 => md_output[2] = md_output[1]

\* a content ending in exactly one newline got one more, and the second
\* application added nothing
C29_Witness ==
    /\ md_input.fn = "paragraph"
    /\ TrailingNewlines(md_input.content) = 1
    /\ Len(md_input.content) > 1
    /\ Len(md_output) = 2
    /\ md_output[1] = Append(md_input.content, NL)
    /\ md_output[2] = md_output[1]

RECURSIVE Lines(_, _)
\* one line per row from the i-th on: the cells joined by " | ", one newline
Lines(rows, i) ==
    IF i > Len(rows) THEN <<>>
    ELSE Join(rows[i], " | ", 1) \o <<NL>> \o Lines(rows, i + 1)

\* header line, divider line, one line per data row, nothing after the last
TableText(rows, header) ==
    Join(header, " | ", 1) \o <<NL>>
        \o Join([i \in 1..Len(header) |-> "---"], "|", 1) \o <<NL>>
        \o Lines(rows, 1)

\* C30: reddit_table(rows, header) is exactly the header cells joined by
\* " | ", the divider line of one "---" per column joined by "|", and one
\* line per data row, each line ended by a single newline and nothing after
\* the last row; with an empty header and the header put before the rows it
\* returns the same string.
C30_TableText ==
    (md_input.fn = "table" /\ md_input.header # <<>>) =>
        /\ Len(md_output) >= 1 =>
              /\ ~md_output[1].raised
              /\ md_output[1].text = TableText(md_input.rows, md_input.header)
        /\ Len(md_output) >= 2 => md_output[2] = md_output[1]

-----------------------------------------------------------------------------
(* Lines of the scraped page *)

\* the construction has run, to its end or into an exception
Constructed == pc \in {"init", "crashed"}

\* the line parses as a date-time with a time of day
IsValidDateLine(line) == ParseText(line).ok /\ ParseText(line).hour # 0

\* the most recently seen valid date line before line i, "" when there is none
CurrentDateAt(i) ==
    LET seen == {j \in 1..(i - 1) : IsValidDateLine(page[j])}
    IN  IF seen = {} THEN ""
        ELSE page[CHOOSE j \in seen : \A k \in seen : k <= j]

HasKey(k) == \E j \in 1..Len(ceremony_dict.keys) : ceremony_dict.keys[j] = k

\* C31: in the built calendar a line that does not parse as a date-time is
\* in the slot set of the most recently seen valid (non-midnight) date line;
\* a line parsing with hour 0 is no key and never the current date; a
\* non-date line before any valid date line is in no slot set on that
\* account.
C31_LinesAttributedToCurrentDate ==
    Constructed =>
        /\ \A i \in 1..Len(page) :
              (~ParseText(page[i]).ok /\ CurrentDateAt(i) # "") =>
                  /\ HasKey(CurrentDateAt(i))
                  /\ page[i] \in ceremony_dict.slots[CurrentDateAt(i)]
        /\ \A i \in 1..Len(page) :
              (ParseText(page[i]).ok /\ ParseText(page[i]).hour = 0) => ~HasKey(page[i])
        /\ \A j \in 1..Len(ceremony_dict.keys) :
              \A s \in ceremony_dict.slots[ceremony_dict.keys[j]] :
                  \E i \in 1..Len(page) :
                      page[i] = s /\ CurrentDateAt(i) = ceremony_dict.keys[j]

\* C32: building the calendar completes with a result for every sequence of
\* lines: the date a non-date line is attributed to is always a key, also
\* when the latest valid date line was not inserted because a key begins
\* with its text.
C32_BuildAlwaysCompletes ==
    Constructed =>
        /\ pc = "init"
        /\ ~_get_ceremony_dict(page).raised

-----------------------------------------------------------------------------
(* A resolve message over several cycles *)

\* the amounts of the store, record by record
AmountsOf(d) == [i \in 1..Len(d.users) |-> d.users[i].amount.val]

\* C33: the effect of one resolve message is applied at most once.  A
\* message that is left unread is handled again by the next cycle, so the
\* handling of a resolve message that leaves it unread (the update of the
\* counter-party failed) has decremented no amount: only the handling that
\* marks the message read changes the initiator's amount.
C33_ResolveAppliedAtMostOnce ==
    [][(AtMessage /\ KindOf(Msg) = "ResolveTuple" /\ inbox' = inbox)
          => AmountsOf(db') = AmountsOf(db)]_vars

-----------------------------------------------------------------------------
(* The bot looping over one inbox: started with --loop, the thread calls   *)
(* work() again and again, and every step of a running cycle is taken.     *)

SpecParseFair == SpecParse /\ WF_vars(NextParse)

UnreadNewRecordCommand ==
    \E i \in 1..Len(inbox) : KindOf(inbox[i]) = "UserTuple"

\* C34: a message whose handling raises in every cycle does not block the
\* others: an unread message with a valid new-record command is eventually
\* handled and marked read, and an add that was enqueued is eventually
\* flushed to the store.
C34_FailingMessageBlocksNothing ==
    /\ UnreadNewRecordCommand ~> ~UnreadNewRecordCommand
    /\ (add_queue # <<>>) ~> (add_queue = <<>>)

-----------------------------------------------------------------------------
(* A resolve command for a date that is no ceremony *)

\* a resolve command whose date text parses but equals no canonical key
IsResolveBadDate(body) ==
    /\ ~HasDeleteCommand(body)
    /\ ~COMMAND_PATTERN(body)
    /\ RESOLVE_PATTERN(body)
    /\ parse(SubSeq(body, 5, Len(body))).ok
    /\ FirstKey(ceremony_dict, parse(SubSeq(body, 5, Len(body)))) = ""

\* C35: a resolve command whose date text matches no canonical key is
\* classified as InvalidCeremonyDate: the author gets the invalid-ceremony
\* reply, the message is marked read, no amount changes and the loop goes on
\* with the remaining messages.
C35_ResolveBadDateClassified ==
    [][(AtMessage /\ IsResolveBadDate(Msg.body)) =>
          /\ CommandOf(Msg).kind = "InvalidCeremonyDate"
          /\ outbox' = Append(outbox, Reply(Msg.author, "invalid_ceremony_reply"))
          /\ readLog' = Append(readLog, Msg)
          /\ Len(inbox') = Len(inbox) - 1
          /\ AmountsOf(db') = AmountsOf(db)
          /\ pc' = "inbox"]_vars

-----------------------------------------------------------------------------
(* Confirmations and the store *)

\* outbox[k] is the last new-record or delete confirmation its addressee
\* was sent in this cycle
LastConfirmation(k) ==
    /\ outbox[k].kind \in {"new_user_reply", "delete_user_reply"}
    /\ \A j \in (k + 1)..Len(outbox) :
           ~(/\ Lower(outbox[j].to) = Lower(outbox[k].to)
             /\ outbox[j].kind \in {"new_user_reply", "delete_user_reply"})

\* C36: a confirmation is sent only for an effect that is committed: when
\* the cycle has ended, a user whose last confirmation of the cycle was the
\* new-user confirmation has a record in the store, and a user whose last
\* confirmation was the delete confirmation has none.
C36_ConfirmationMeansCommitted ==
    CycleEnded =>
        \A k \in 1..Len(outbox) :
            LastConfirmation(k) =>
                /\ outbox[k].kind = "new_user_reply" =>
                       RecordsOf(Lower(outbox[k].to)) # {}
                /\ outbox[k].kind = "delete_user_reply" =>
                       RecordsOf(Lower(outbox[k].to)) = {}

-----------------------------------------------------------------------------
(* Notifications without a counter-party *)

\* C37: a match notification goes to a user only when the list of
\* candidates it carries is non-empty, and a user is stamped with
\* last_notified only by a run that sent that user such a notification for
\* the date: a buyer without an eligible seller, or a seller without an
\* eligible buyer, gets no message and no stamp.
C37_NoNotificationWithoutCandidates ==
    /\ \A r \in Runs : \A m \in SentIn(r) : m.users # <<>>
    /\ \A it \in ticketbot_table :
           \E r \in Runs : \E m \in SentIn(r) :
               /\ match_log[r].time = it.last_notified
               /\ m.to = it.user_name
               /\ m.date = it.ceremony_date
               /\ m.users # <<>>

=============================================================================
